---- MODULE Spec2Model ----
(***************************************************************************)
(* Model of the five exercise-export scripts:                              *)
(*   complete_export.py, export_all_exercises.py, export_complete.py,      *)
(*   export_exercises.py, json_to_csv.py.                                  *)
(* Each behaviour is one run of one script (export_all_exercises.py may be *)
(* run a second time after --create-sample).  A record is a Python dict,   *)
(* modelled as the sequence of its (key, value) items in insertion order.  *)
(* The destination is the sequence of CSV rows it holds, each row the      *)
(* sequence of its cell texts.  JSON text is a sequence of tokens.         *)
(***************************************************************************)
EXTENDS Integers, Sequences, FiniteSets, TLC

\* Longest input sequence of records explored.
MaxRecords == 2

Scripts ==
  {"complete_export", "export_all_exercises", "export_complete",
   "export_exercises", "json_to_csv"}

\* ------------------------------------------------------------------------
\* Column lists
\* ------------------------------------------------------------------------
fieldnames ==
  <<"id", "name", "instructions", "video_url", "created_at", "type",
    "difficulty", "category_id", "is_variation", "equipment", "muscle">>

fields_json_to_csv ==
  <<"id", "name", "instructions", "video_url", "created_at",
    "type", "difficulty", "category_id", "is_variation",
    "equipment", "muscle">>

fields_export_exercises ==
  <<"id", "name", "type", "muscle", "instructions", "equipment", "video_url",
    "difficulty", "category_id", "is_variation", "created_at">>

Fields(s) ==
  CASE s = "export_exercises" -> fields_export_exercises
    [] s = "json_to_csv" -> fields_json_to_csv
    [] OTHER -> fieldnames

Range(f) == {f[x] : x \in DOMAIN f}

\* ------------------------------------------------------------------------
\* Python values and dicts
\* ------------------------------------------------------------------------
None == [tag |-> "none", s |-> "", b |-> FALSE]
Str(x) == [tag |-> "str", s |-> x, b |-> FALSE]
Bool(x) == [tag |-> "bool", s |-> "", b |-> x]

Item(k, v) == [k |-> k, v |-> v]

Keys(rec) == {rec[j].k : j \in DOMAIN rec}

\* dict.get(key, default)
Get(rec, key, default) ==
  IF key \in Keys(rec)
    THEN (CHOOSE it \in Range(rec) : it.k = key).v
    ELSE default

\* str(value)
PyStr(v) ==
  CASE v.tag = "str" -> v.s
    [] v.tag = "bool" -> (IF v.b THEN "True" ELSE "False")
    [] OTHER -> "None"

\* the csv writer's rendering of one field: None is written as the empty
\* string, everything else as str(value)
CsvCellNoneAsText(v) == PyStr(v)

CsvCell(v) == IF v.tag = "none" THEN "" ELSE PyStr(v)

\* DictWriter's restval default
restval == Str("")

\* DictWriter._dict_to_list followed by writer.writerow: the cells of the row
DictToList(rec, flds) ==
  [p \in DOMAIN flds |-> CsvCell(Get(rec, flds[p], restval))]

\* keys DictWriter rejects (extrasaction = 'raise')
WrongFields(rec, flds) == Keys(rec) \ Range(flds)

\* for key, value in exercise.items(): if value is None: exercise[key] = ""
Normalize(rec) ==
  [j \in DOMAIN rec |->
     IF rec[j].v = None THEN Item(rec[j].k, Str("")) ELSE rec[j]]

\* the scripts whose loop rewrites None before writerow
Normalizes(s) == s \in {"complete_export", "export_all_exercises", "export_complete"}

\* the scripts that print the success lines inside the with block
ReportsInsideWith(s) == s \in {"complete_export", "export_all_exercises", "export_complete"}

\* ------------------------------------------------------------------------
\* Sample records
\* ------------------------------------------------------------------------
RecSample ==
  <<Item("id", Str("13ea3417")), Item("name", Str("Ab wheel rollout")),
    Item("instructions", Str("Kneel on the floor")),
    Item("video_url", Str("https://x/AB%20Wheel.gif")),
    Item("created_at", Str("2025-04-22 20:37:38+00")),
    Item("type", Str("abs")), Item("difficulty", None),
    Item("category_id", None), Item("is_variation", Bool(FALSE)),
    Item("equipment", Str("{ab_wheel}")), Item("muscle", None)>>

\* all eleven keys, none null, keys in the reverse order
RecReversed ==
  <<Item("muscle", Str("biceps")), Item("equipment", Str("{barbell}")),
    Item("is_variation", Bool(TRUE)), Item("category_id", Str("c7")),
    Item("difficulty", Str("easy")), Item("type", Str("biceps")),
    Item("created_at", Str("2025-04-22 20:37:38+00")),
    Item("video_url", Str("")), Item("instructions", Str("Stand upright")),
    Item("name", Str("Barbell curl")), Item("id", Str("b943ad86"))>>

\* the key "muscle" is absent
RecNoMuscle == SubSeq(RecSample, 1, 10)

\* a key that is not a column
RecExtra == Append(RecSample, Item("notes", Str("n")))

SampleRecords == {RecSample, RecReversed, RecNoMuscle, RecExtra}

RECURSIVE SeqsUpTo(_, _)
SeqsUpTo(S, n) ==
  IF n = 0 THEN {<<>>}
  ELSE LET shorter == SeqsUpTo(S, n - 1)
       IN shorter \cup {Append(q, x) : q \in {r \in shorter : Len(r) = n - 1}, x \in S}

Inputs == SeqsUpTo(SampleRecords, MaxRecords)

\* ------------------------------------------------------------------------
\* JSON text as tokens
\* ------------------------------------------------------------------------
Tok(t) == [t |-> t, rec |-> <<>>]
Obj(rec) == [t |-> "obj", rec |-> rec]
\* an object whose string literals hold a raw newline character
ObjRaw(rec) == [t |-> "objraw", rec |-> rec]

RECURSIVE Encode(_)
Encode(recs) ==
  IF recs = <<>> THEN <<Tok("lb"), Tok("rb")>>
  ELSE IF Len(recs) = 1 THEN <<Tok("lb"), Obj(recs[1]), Tok("rb")>>
  ELSE LET front == Encode(SubSeq(recs, 1, Len(recs) - 1))
       IN SubSeq(front, 1, Len(front) - 1)
            \o <<Tok("comma"), Obj(recs[Len(recs)]), Tok("rb")>>

\* what create_data_file writes
SampleFileText ==
  <<Tok("lb"), Tok("comment"), Tok("comment"), Tok("comment"),
    Obj(RecSample), Tok("rb")>>

\* the json_data literal of json_to_csv.py: "\n" inside a non-raw Python
\* string literal is a raw newline inside the JSON strings
RawNewlineText == <<Tok("lb"), ObjRaw(RecSample), Tok("rb")>>

TruncatedText == <<Tok("lb"), Obj(RecSample)>>

BadTexts == {SampleFileText, RawNewlineText, TruncatedText}

Texts == {Encode(recs) : recs \in Inputs} \cup BadTexts

ParseFail == [ok |-> FALSE, val |-> <<>>]
ParseOk(v) == [ok |-> TRUE, val |-> v]

RECURSIVE ParseItems(_, _)
ParseItems(t, acc) ==
  IF t = <<>> THEN ParseFail
  ELSE IF Head(t).t = "rb"
    THEN (IF Len(t) = 1 THEN ParseOk(acc) ELSE ParseFail)
  ELSE IF Head(t).t = "comma" /\ Len(t) >= 2 /\ t[2].t = "obj"
    THEN ParseItems(SubSeq(t, 3, Len(t)), Append(acc, t[2].rec))
  ELSE ParseFail

ParseArray(t) ==
  IF Len(t) < 2 \/ t[1].t # "lb" THEN ParseFail
  ELSE IF t[2].t = "rb" THEN (IF Len(t) = 2 THEN ParseOk(<<>>) ELSE ParseFail)
  ELSE IF t[2].t = "obj" THEN ParseItems(SubSeq(t, 3, Len(t)), <<t[2].rec>>)
  ELSE ParseFail

\* a parser that skips comments
JsonLoadSkippingComments(t) == ParseArray(SelectSeq(t, LAMBDA x : x.t # "comment"))

\* json.load / json.loads / response.json(): strict JSON
JsonLoad(t) == ParseArray(t)

\* ------------------------------------------------------------------------
\* State
\* ------------------------------------------------------------------------
VARIABLES
  script,     \* which script is run
  mode,       \* export_all_exercises.py: "create" when argv[1] = --create-sample
  run,        \* 1 on the first run, 2 on the run after --create-sample
  pc,         \* position in the script
  exists,     \* export_all_exercises.py: exercises_data.json exists
  text,       \* JSON text: data file, json_data literal or HTTP response body
  status,     \* export_exercises.py: response.status_code
  exercises,  \* the in-memory list of records (exercises / exercises_data)
  loaded,     \* the list as it was when the source delivered it
  src,        \* "pending", "loaded" or "failed": state of the record source
  dest,       \* rows held by the destination CSV file
  handle,     \* "none", "open" or "closed": the csvfile handle
  out,        \* lines printed so far
  count,      \* the count variable of the loop scripts
  idx,        \* 1-based index of the record the loop is at
  err         \* "none", or the kind of failure that occurred

vars ==
  <<script, mode, run, pc, exists, text, status, exercises, loaded, src,
    dest, handle, out, count, idx, err>>

HTTP_OK == 200
HTTP_ERROR == 500

\* content of the destination before the run
PrevContent == <<(<<"stale">>)>>

Msg(k) == [kind |-> k, n |-> 0]
MsgN(k, n) == [kind |-> k, n |-> n]

\* the two success lines: "CSV file created ..." and "Exported N exercises"
SuccessLines(n) == <<Msg("Created"), MsgN("Exported", n)>>

InitialPc(s) ==
  CASE s \in {"complete_export", "export_complete"} -> "open"
    [] s = "json_to_csv" -> "load"
    [] OTHER -> "start"

\* where control goes when the records are exhausted
AfterLoop(s) == IF ReportsInsideWith(s) THEN "report" ELSE "close"

\* the loop condition, off by one: stops before the last record
LoopPcSkipLast(s, n, i) == IF i >= n THEN AfterLoop(s) ELSE "loop"

\* for exercise in exercises_data: ... / writerows
LoopPc(s, n, i) == IF i > n THEN AfterLoop(s) ELSE "loop"

\* an except clause inside the loop: the failing row is skipped over
RowErrorPcContinue(s) == "loop"

\* an exception raised by a row leaves the loop and the with block
RowErrorPc(s) == "except"

\* a handle that is not closed when an exception leaves the block
WithExitLeak(h) == h

\* the with statement's __exit__: closes the file if it was opened
WithExit(h) == IF h = "open" THEN "closed" ELSE h

\* what is printed when an exception leaves the export
ErrorOutput(s) ==
  CASE s \in {"complete_export", "export_complete"} -> <<Msg("Error")>>
    [] s = "export_all_exercises" -> <<Msg("Error"), Msg("Hint")>>
    [] OTHER -> <<Msg("Traceback")>>

\* where control goes after the exception was reported
AfterExcept(s) == IF s = "complete_export" THEN "tail" ELSE "done"

\* where control goes after the with block was left normally
AfterClose(s) ==
  CASE s \in {"complete_export", "export_complete"} -> "tail"
    [] s = "export_all_exercises" -> "done"
    [] OTHER -> "report"

Init ==
  /\ script \in Scripts
  /\ mode \in (IF script = "export_all_exercises" THEN {"export", "create"} ELSE {"export"})
  /\ run = 1
  /\ pc = InitialPc(script)
  /\ exists \in (IF script = "export_all_exercises" THEN BOOLEAN ELSE {TRUE})
  /\ text \in (IF script = "complete_export" \/ ~exists THEN {<<>>} ELSE Texts)
  /\ status \in (IF script = "export_exercises" THEN {HTTP_OK, HTTP_ERROR} ELSE {HTTP_OK})
  /\ exercises \in (IF script = "complete_export" THEN Inputs ELSE {<<>>})
  /\ loaded = exercises
  /\ src = IF script = "complete_export" THEN "loaded" ELSE "pending"
  /\ dest = PrevContent
  /\ handle = "none"
  /\ out = <<>>
  /\ count = 0
  /\ idx = 1
  /\ err = "none"

\* ------------------------------------------------------------------------
\* export_exercises.py: fetch_exercises and the __main__ block up to the
\* call of export_to_csv
\* ------------------------------------------------------------------------
Fetch ==
  /\ script = "export_exercises" /\ pc = "start"
  /\ IF status = HTTP_OK
       THEN LET r == JsonLoad(text) IN
            IF r.ok
              THEN /\ exercises' = r.val
                   /\ loaded' = r.val
                   /\ src' = "loaded"
                   /\ err' = err
                   /\ IF r.val # <<>>
                        THEN /\ out' = out \o <<Msg("Info"), MsgN("Fetched", Len(r.val)),
                                                MsgN("Writing", Len(r.val))>>
                             /\ pc' = "open"
                        ELSE /\ out' = out \o <<Msg("Info"), MsgN("Fetched", 0),
                                                Msg("NoExercises")>>
                             /\ pc' = "done"
              ELSE /\ out' = out \o <<Msg("Info")>>
                   /\ src' = "failed"
                   /\ err' = "parse"
                   /\ pc' = "except"
                   /\ UNCHANGED <<exercises, loaded>>
       ELSE /\ out' = out \o <<Msg("Info"), MsgN("Error", status), Msg("Body"),
                               Msg("NoExercises")>>
            /\ src' = "failed"
            /\ err' = "source"
            /\ pc' = "done"
            /\ UNCHANGED <<exercises, loaded>>
  /\ UNCHANGED <<script, mode, run, exists, text, status, dest, handle, count, idx>>

\* ------------------------------------------------------------------------
\* export_all_exercises.py
\* ------------------------------------------------------------------------
CheckDataFile ==
  /\ script = "export_all_exercises" /\ mode = "export" /\ pc = "start"
  /\ IF exists
       THEN /\ out' = out \o <<Msg("Info")>>
            /\ pc' = "load"
            /\ UNCHANGED <<src, err>>
       ELSE /\ out' = out \o <<Msg("Info"), Msg("Error"), Msg("Hint"), Msg("Hint")>>
            /\ src' = "failed"
            /\ err' = "source"
            /\ pc' = "done"
  /\ UNCHANGED <<script, mode, run, exists, text, status, exercises, loaded,
                 dest, handle, count, idx>>

CreateDataFile ==
  /\ script = "export_all_exercises" /\ mode = "create" /\ pc = "start"
  /\ exists' = TRUE
  /\ text' = SampleFileText
  /\ out' = out \o <<Msg("Info"), Msg("Hint"), Msg("Hint")>>
  /\ pc' = "done"
  /\ UNCHANGED <<script, mode, run, status, exercises, loaded, src, dest,
                 handle, count, idx, err>>

\* "Then run this script again": a second run, without --create-sample
RunAgain ==
  /\ script = "export_all_exercises" /\ mode = "create" /\ pc = "done" /\ run = 1
  /\ mode' = "export"
  /\ run' = 2
  /\ pc' = InitialPc(script)
  /\ out' = <<>>
  /\ UNCHANGED <<script, exists, text, status, exercises, loaded, src, dest,
                 handle, count, idx, err>>

\* ------------------------------------------------------------------------
\* json.load(f) / json.loads(json_data)
\* ------------------------------------------------------------------------
LoadJson ==
  /\ script \in {"export_all_exercises", "json_to_csv", "export_complete"}
  /\ pc = "load"
  /\ LET r == JsonLoad(text) IN
     IF r.ok
       THEN /\ exercises' = r.val
            /\ loaded' = r.val
            /\ src' = "loaded"
            /\ pc' = IF script = "export_complete" THEN LoopPc(script, Len(r.val), 1) ELSE "open"
            /\ err' = err
       ELSE /\ src' = "failed"
            /\ err' = "parse"
            /\ pc' = "except"
            /\ UNCHANGED <<exercises, loaded>>
  /\ UNCHANGED <<script, mode, run, exists, text, status, dest, handle, out,
                 count, idx>>

\* ------------------------------------------------------------------------
\* with open(csv_file_path, 'w', ...) as csvfile
\* ------------------------------------------------------------------------
OpenDest ==
  /\ pc = "open"
  /\ \E ok \in BOOLEAN :
       IF ok
         THEN /\ handle' = "open"
              /\ dest' = <<>>
              /\ pc' = "header"
              /\ err' = err
         ELSE /\ err' = "io"
              /\ pc' = "except"
              /\ UNCHANGED <<handle, dest>>
  /\ UNCHANGED <<script, mode, run, exists, text, status, exercises, loaded,
                 src, out, count, idx>>

\* writer = csv.DictWriter(csvfile, fieldnames=...); writer.writeheader()
\* (export_complete.py then prints and parses; the others enter the loop)
WriteHeader ==
  /\ pc = "header"
  /\ \E ok \in BOOLEAN :
       IF ok
         THEN /\ dest' = Append(dest, Fields(script))
              /\ IF script = "export_complete"
                   THEN /\ out' = out \o <<Msg("Info")>>
                        /\ pc' = "load"
                   ELSE /\ out' = out
                        /\ pc' = LoopPc(script, Len(exercises), 1)
              /\ err' = err
         ELSE /\ err' = "io"
              /\ pc' = "except"
              /\ UNCHANGED <<dest, out>>
  /\ count' = 0
  /\ idx' = 1
  /\ UNCHANGED <<script, mode, run, exists, text, status, exercises, loaded,
                 src, handle>>

\* one iteration of the loop: the None rewrite (where the script has it) and
\* writer.writerow(exercise); in export_exercises.py one row of writerows
WriteRow ==
  /\ pc = "loop"
  /\ idx <= Len(exercises)
  /\ LET rec == IF Normalizes(script) THEN Normalize(exercises[idx]) ELSE exercises[idx]
     IN /\ exercises' = [exercises EXCEPT ![idx] = rec]
        /\ IF WrongFields(rec, Fields(script)) # {}
             THEN /\ err' = "record"
                  /\ pc' = RowErrorPc(script)
                  /\ UNCHANGED <<dest, count, idx>>
             ELSE \E ok \in BOOLEAN :
                    IF ok
                      THEN /\ dest' = Append(dest, DictToList(rec, Fields(script)))
                           /\ count' = count + 1
                           /\ idx' = idx + 1
                           /\ pc' = LoopPc(script, Len(exercises), idx + 1)
                           /\ err' = err
                      ELSE /\ err' = "io"
                           /\ pc' = RowErrorPc(script)
                           /\ UNCHANGED <<dest, count, idx>>
  /\ UNCHANGED <<script, mode, run, exists, text, status, loaded, src, handle, out>>

\* print("CSV file created ..."); print("Exported N exercises")
Report ==
  /\ pc = "report"
  /\ out' = out \o SuccessLines(IF ReportsInsideWith(script) THEN count ELSE Len(exercises))
  /\ pc' = IF ReportsInsideWith(script) THEN "close" ELSE "done"
  /\ UNCHANGED <<script, mode, run, exists, text, status, exercises, loaded,
                 src, dest, handle, count, idx, err>>

\* normal exit of the with block: close() flushes, and the flush may fail;
\* the file is closed either way
CloseDest ==
  /\ pc = "close"
  /\ handle' = WithExit(handle)
  /\ \E ok \in BOOLEAN :
       IF ok
         THEN /\ pc' = AfterClose(script)
              /\ err' = err
         ELSE /\ err' = "io"
              /\ pc' = "except"
  /\ UNCHANGED <<script, mode, run, exists, text, status, exercises, loaded,
                 src, dest, out, count, idx>>

\* an exception leaves the with block (closing the file) and reaches the
\* except clause, or, where there is none, ends the program with a traceback
Unwind ==
  /\ pc = "except"
  /\ handle' = WithExit(handle)
  /\ out' = out \o ErrorOutput(script)
  /\ pc' = AfterExcept(script)
  /\ UNCHANGED <<script, mode, run, exists, text, status, exercises, loaded,
                 src, dest, count, idx, err>>

\* the prints after the try block (complete_export.py) or after the with
\* block (export_complete.py)
Epilogue ==
  /\ pc = "tail"
  /\ out' = out \o <<Msg("Note")>>
  /\ pc' = "done"
  /\ UNCHANGED <<script, mode, run, exists, text, status, exercises, loaded,
                 src, dest, handle, count, idx, err>>

Next ==
  \/ Fetch
  \/ CheckDataFile
  \/ CreateDataFile
  \/ RunAgain
  \/ LoadJson
  \/ OpenDest
  \/ WriteHeader
  \/ WriteRow
  \/ Report
  \/ CloseDest
  \/ Unwind
  \/ Epilogue

Spec == Init /\ [][Next]_vars

\* ------------------------------------------------------------------------
\* Vocabulary of the properties (independent of the operators above)
\* ------------------------------------------------------------------------
\* the column order the contract fixes
SpecHeader ==
  <<"id", "name", "instructions", "video_url", "created_at", "type",
    "difficulty", "category_id", "is_variation", "equipment", "muscle">>

HeaderKeys == {SpecHeader[p] : p \in DOMAIN SpecHeader}

KeySet(rec) == {rec[j].k : j \in DOMAIN rec}

HasKey(rec, key) == \E j \in DOMAIN rec : rec[j].k = key

ValueAt(rec, key) == rec[CHOOSE j \in DOMAIN rec : rec[j].k = key].v

IsNull(v) == v.tag = "none"

\* the string form of a non-null value
StringForm(v) == IF v.tag = "str" THEN v.s ELSE IF v.b THEN "True" ELSE "False"

\* the row a record must produce under the columns cols
ExpectedRow(rec, cols) ==
  [p \in DOMAIN cols |->
     IF ~HasKey(rec, cols[p]) \/ IsNull(ValueAt(rec, cols[p]))
       THEN ""
       ELSE StringForm(ValueAt(rec, cols[p]))]

\* the record has the eleven keys and no others
WellFormed(rec) == KeySet(rec) = HeaderKeys

IsSuccessLine(m) == m.kind \in {"Created", "Exported"}
IsErrorLine(m) == m.kind \in {"Error", "Traceback"}

SuccessShown == \E j \in DOMAIN out : IsSuccessLine(out[j])
ErrorShown == \E j \in DOMAIN out : IsErrorLine(out[j])

\* ------------------------------------------------------------------------
\* C1: when every record has exactly the eleven keys and the destination
\* accepts every write, a finished export has succeeded: the destination
\* holds the header and then one row per record in input order, and the
\* reported count is the number of records.
\* ------------------------------------------------------------------------
C1_WellFormedExportSucceeds ==
  ( /\ pc = "done"
    /\ src = "loaded"
    /\ handle = "closed"
    /\ err # "io"
    /\ \A i \in DOMAIN loaded : WellFormed(loaded[i]) )
  => /\ err = "none"
     /\ Len(dest) = Len(loaded) + 1
     /\ Range(dest[1]) = HeaderKeys
     /\ \A i \in DOMAIN loaded : dest[i + 1] = ExpectedRow(loaded[i], dest[1])
     /\ \E j \in DOMAIN out : out[j] = MsgN("Exported", Len(loaded))
     /\ Cardinality({j \in DOMAIN out : out[j].kind = "Exported"}) = 1

C1_Witness ==
  /\ pc = "done" /\ err = "none" /\ handle = "closed"
  /\ Len(loaded) >= 2
  /\ \A i \in DOMAIN loaded : WellFormed(loaded[i])
  /\ loaded[1] = RecSample /\ loaded[2] = RecReversed
  /\ \E j \in DOMAIN out : out[j] = MsgN("Exported", Len(loaded))

\* ------------------------------------------------------------------------
\* C2: a record that lacks one of the header keys makes the whole export
\* fail, and no row is written in which an empty cell stands for the
\* missing key.
\* ------------------------------------------------------------------------
C2_MissingKeyFailsExport ==
  /\ handle # "none"
       => \A r \in 2..Len(dest) : \A p \in DOMAIN dest[1] : HasKey(loaded[r - 1], dest[1][p])
  /\ ( /\ pc = "done" /\ src = "loaded" /\ handle # "none"
       /\ \E i \in DOMAIN loaded : ~(HeaderKeys \subseteq KeySet(loaded[i])) )
       => err # "none"

\* ------------------------------------------------------------------------
\* C3: in every script the header is the first row of the destination, is
\* written once, and lists the eleven columns in the fixed order.
\* ------------------------------------------------------------------------
C3_FixedHeaderOrder ==
  (handle # "none" /\ Len(dest) >= 1)
  => /\ dest[1] = SpecHeader
     /\ Len(dest) <= Len(loaded) + 1

\* ------------------------------------------------------------------------
\* C4: in every row written, the cell of a field the record holds as null is
\* the empty string, and the cell of a non-null field is the value's string
\* form, in the scripts that rewrite None first and in those that do not.
\* ------------------------------------------------------------------------
C4_NullBecomesEmpty ==
  handle # "none"
  => \A r \in 2..Len(dest) : \A p \in DOMAIN dest[1] :
       LET rec == loaded[r - 1]
           key == dest[1][p]
       IN HasKey(rec, key)
            => dest[r][p] = IF IsNull(ValueAt(rec, key)) THEN ""
                            ELSE StringForm(ValueAt(rec, key))

C4_Witness ==
  /\ script = "export_exercises"
  /\ Len(dest) >= 2
  /\ loaded[1] = RecSample
  /\ IsNull(ValueAt(loaded[1], "muscle"))
  /\ dest[2][4] = ""
  /\ dest[2][10] = "False"

\* ------------------------------------------------------------------------
\* C5: when the run is over, every record of the input list has the keys and
\* values it was delivered with.
\* ------------------------------------------------------------------------
C5_RecordsReadOnly == pc = "done" => exercises = loaded

\* ------------------------------------------------------------------------
\* C6: once a failure has occurred the destination never changes again, and
\* what it holds is at most the header and the rows of the records before
\* the failing one, in input order.
\* ------------------------------------------------------------------------
RowsBeforeFailure ==
  /\ Len(dest) <= idx
  /\ \A r \in 2..Len(dest) : dest[r] = ExpectedRow(loaded[r - 1], dest[1])

C6_ErrorsAreTerminal ==
  [][ /\ (err # "none" => dest' = dest)
      /\ ((err' # "none" /\ handle' # "none") => RowsBeforeFailure') ]_vars

C6_Witness ==
  /\ pc = "done"
  /\ err = "record"
  /\ Len(loaded) = 2
  /\ WellFormed(loaded[1]) /\ loaded[2] = RecExtra
  /\ idx = 2
  /\ Len(dest) = 2

\* ------------------------------------------------------------------------
\* C7: a success line is printed only when every row has been written; a
\* run that failed prints no success line and exactly one error message; a
\* run that exported prints the number of rows.
\* ------------------------------------------------------------------------
C7_ReportsOutcome ==
  /\ SuccessShown => (handle # "none" /\ Len(dest) = Len(loaded) + 1)
  /\ err # "none" => ~SuccessShown
  /\ (pc = "done" /\ err # "none")
       => Cardinality({j \in DOMAIN out : IsErrorLine(out[j])}) = 1
  /\ (pc = "done" /\ err = "none" /\ handle = "closed")
       => \E j \in DOMAIN out : out[j] = MsgN("Exported", Len(dest) - 1)

\* ------------------------------------------------------------------------
\* C8: once the export has been left (the trailing prints included) the
\* destination handle is not open, whether the export completed or failed at
\* the open, the header, a row or the close.
\* ------------------------------------------------------------------------
C8_HandleReleased == pc \in {"done", "tail"} => handle # "open"

C8_Witness ==
  /\ pc = "done"
  /\ err = "io"
  /\ handle = "closed"
  /\ Len(dest) = 2
  /\ Len(exercises) = 2

\* ------------------------------------------------------------------------
\* C9: in export_exercises.py and export_all_exercises.py, when the source
\* delivers no records (fetch failed, or the list is empty) the destination
\* is not opened and keeps its content.
\* ------------------------------------------------------------------------
C9_NoExportWithoutRecords ==
  ( /\ script \in {"export_exercises", "export_all_exercises"}
    /\ src # "pending"
    /\ loaded = <<>> )
  => (handle = "none" /\ dest = PrevContent)

\* ------------------------------------------------------------------------
\* C10: in export_all_exercises.py, while exercises_data.json is missing or
\* does not parse (the file create_data_file writes does not), the
\* destination is not opened and keeps its content, and the finished export
\* run has printed an error.
\* ------------------------------------------------------------------------
C10_DestUntouchedWithoutData ==
  (script = "export_all_exercises" /\ (~exists \/ text \in BadTexts))
  => /\ handle = "none"
     /\ dest = PrevContent
     /\ (pc = "done" /\ mode = "export") => (ErrorShown /\ ~SuccessShown)

C10_Witness ==
  /\ script = "export_all_exercises"
  /\ run = 2
  /\ text = SampleFileText
  /\ pc = "done"
  /\ err = "parse"
  /\ ErrorShown
  /\ dest = PrevContent

====
